---- MODULE Spec2Model ----
(***************************************************************************)
(* Model of soundcompare's backend (src/app.py): a Flask application with  *)
(* one table, `submissions`, behind SQLAlchemy, and four JSON endpoints:   *)
(* /api/submit, /api/admin-data, /api/admin-clear and                      *)
(* /api/admin-generate-test.                                               *)
(*                                                                         *)
(* Python values are tagged records; a Python int is kept as two limbs     *)
(* (hi * 2^16 + lo) so that 2^31 and 2^32-1 are representable.  A JSON     *)
(* text is the sequence of its tokens: json.dumps writes them and          *)
(* json.loads parses them back.                                            *)
(***************************************************************************)
EXTENDS Integers, Sequences, FiniteSets, TLC

(***************************************************************************)
(* Python values                                                           *)
(***************************************************************************)
\* the base of the two limbs, 2^16
Limb == 256 * 256

None == [t |-> "none"]
PyInt(hi, lo) == [t |-> "int", hi |-> hi, lo |-> lo]
Small(n) == PyInt(0, n)
PyStr(s) == [t |-> "str", s |-> s]
PyList(items) == [t |-> "list", items |-> items]
\* a dict keeps its insertion order: a sequence of <<key, value>> pairs
PyDict(pairs) == [t |-> "dict", pairs |-> pairs]

\* the result of a call: a value, or the exception it raised
Ok(v) == [ok |-> TRUE, val |-> v]
Raise(e) == [ok |-> FALSE, exc |-> e]

IntLeq(a, b) == a.hi < b.hi \/ (a.hi = b.hi /\ a.lo <= b.lo)
\* the value as a plain integer, for the small ones (|hi| small)
IntVal(a) == a.hi * Limb + a.lo


\* bool(x) is False: None, 0, "", [], {}
Falsy(x) ==
    \/ x.t = "none"
    \/ x.t = "int" /\ x.hi = 0 /\ x.lo = 0
    \/ x.t = "str" /\ x.s = ""
    \/ x.t = "list" /\ x.items = <<>>
    \/ x.t = "dict" /\ x.pairs = <<>>

HasKey(d, k) == \E i \in 1..Len(d.pairs) : d.pairs[i][1] = k
\* d[k] for a key that is present (the first pair that has it)
Item(d, k) == d.pairs[CHOOSE i \in 1..Len(d.pairs) :
                        d.pairs[i][1] = k /\ \A j \in 1..(i - 1) : d.pairs[j][1] # k][2]
\* d.get(k, default)
DictGet(d, k, default) == IF HasKey(d, k) THEN Item(d, k) ELSE default
\* d[k]: a KeyError when the key is absent
subscript(d, k) == IF HasKey(d, k) THEN Ok(Item(d, k)) ELSE Raise("KeyError")

\* the decimal literals int() and str() are modelled on
IntLiteralMax == 9

\* int(x): an int is itself, a string is parsed, anything else is a TypeError
int(x) ==
    IF x.t = "int" THEN Ok(x)
    ELSE IF x.t = "str"
         THEN IF \E n \in 0..IntLiteralMax : ToString(n) = x.s
              THEN Ok(Small(CHOOSE n \in 0..IntLiteralMax : ToString(n) = x.s))
              ELSE Raise("ValueError")
         ELSE Raise("TypeError")

\* str(x); the model applies it to strings, None and small ints only
str(x) ==
    IF x.t = "str" THEN x.s
    ELSE IF x.t = "none" THEN "None"
    ELSE IF x.t = "int" THEN ToString(IntVal(x))
    ELSE "<object>"

(***************************************************************************)
(* json.dumps / json.loads over token sequences                            *)
(***************************************************************************)
P(c) == [k |-> "p", c |-> c]
TNum(v) == [k |-> "n", hi |-> v.hi, lo |-> v.lo]
TStr(s) == [k |-> "s", s |-> s]
TNull == [k |-> "null"]

RECURSIVE dumps(_)
RECURSIVE DumpItems(_, _)
RECURSIVE DumpPairs(_, _)
DumpItems(items, i) ==
    IF i > Len(items) THEN <<>>
    ELSE (IF i > 1 THEN <<P(",")>> ELSE <<>>) \o dumps(items[i]) \o DumpItems(items, i + 1)
DumpPairs(pairs, i) ==
    IF i > Len(pairs) THEN <<>>
    ELSE (IF i > 1 THEN <<P(",")>> ELSE <<>>)
         \o <<TStr(pairs[i][1]), P(":")>> \o dumps(pairs[i][2]) \o DumpPairs(pairs, i + 1)
dumps(v) ==
    IF v.t = "none" THEN <<TNull>>
    ELSE IF v.t = "int" THEN <<TNum(v)>>
    ELSE IF v.t = "str" THEN <<TStr(v.s)>>
    ELSE IF v.t = "list" THEN <<P("[")>> \o DumpItems(v.items, 1) \o <<P("]")>>
    ELSE <<P("{")>> \o DumpPairs(v.pairs, 1) \o <<P("}")>>

IsP(toks, i, c) == i <= Len(toks) /\ toks[i].k = "p" /\ toks[i].c = c
ParseFail == [ok |-> FALSE]
Parsed(v, next) == [ok |-> TRUE, val |-> v, next |-> next]

\* a recursive-descent parser: the value starting at token i, and where it ends
RECURSIVE ParseValue(_, _)
RECURSIVE ParseItems(_, _, _)
RECURSIVE ParsePairs(_, _, _)
ParseItems(toks, i, acc) ==
    LET e == ParseValue(toks, i) IN
    IF ~e.ok THEN ParseFail
    ELSE IF IsP(toks, e.next, ",") THEN ParseItems(toks, e.next + 1, Append(acc, e.val))
    ELSE IF IsP(toks, e.next, "]") THEN Parsed(PyList(Append(acc, e.val)), e.next + 1)
    ELSE ParseFail
ParsePairs(toks, i, acc) ==
    IF ~(i + 1 <= Len(toks) /\ toks[i].k = "s" /\ IsP(toks, i + 1, ":")) THEN ParseFail
    ELSE LET e == ParseValue(toks, i + 2) IN
         IF ~e.ok THEN ParseFail
         ELSE LET acc2 == Append(acc, <<toks[i].s, e.val>>) IN
              IF IsP(toks, e.next, ",") THEN ParsePairs(toks, e.next + 1, acc2)
              ELSE IF IsP(toks, e.next, "}") THEN Parsed(PyDict(acc2), e.next + 1)
              ELSE ParseFail
ParseValue(toks, i) ==
    IF i > Len(toks) THEN ParseFail
    ELSE LET tk == toks[i] IN
         IF tk.k = "null" THEN Parsed(None, i + 1)
         ELSE IF tk.k = "n" THEN Parsed(PyInt(tk.hi, tk.lo), i + 1)
         ELSE IF tk.k = "s" THEN Parsed(PyStr(tk.s), i + 1)
         ELSE IF tk.c = "[" THEN
              IF IsP(toks, i + 1, "]") THEN Parsed(PyList(<<>>), i + 2)
              ELSE ParseItems(toks, i + 1, <<>>)
         ELSE IF tk.c = "{" THEN
              IF IsP(toks, i + 1, "}") THEN Parsed(PyDict(<<>>), i + 2)
              ELSE ParsePairs(toks, i + 1, <<>>)
         ELSE ParseFail

\* json.loads(text): the whole text must be one value
loads(text) ==
    LET r == ParseValue(text, 1) IN
    IF r.ok /\ r.next = Len(text) + 1 THEN Ok(r.val) ELSE Raise("JSONDecodeError")

(***************************************************************************)
(* Configuration and schema (app.py lines 25-45)                           *)
(***************************************************************************)
ADMIN_CODE == "admin123"

\* Column("submission_id", String(255)), Column("timestamp_*", String(64))
SubmissionIdLen == 255
TimestampLen == 64
\* Integer is a signed 32-bit column: hi * 2^16 + lo within [-2^31, 2^31 - 1]
Int32Limb == 32768

\* the store refuses a NULL or over-long string and an out-of-range integer
FitsString(v, n) == v.t = "str" /\ Len(v.s) <= n
FitsInteger(v) == v.t = "int" /\ v.hi >= -Int32Limb /\ v.hi < Int32Limb
\* BigInteger is 64 bits wide: every two-limb integer of the model fits
FitsBigInteger(v) == v.t = "int"

VARIABLES
    heap,    \* the submissions table: its rows in the order of their INSERTs
    seq,     \* the next value of the id sequence (autoincrement)
    gen,     \* the generate-test request in flight and its open transaction
    rng,     \* the state of Python's shared random generator
    clock,   \* datetime.utcnow(), in seconds
    req,     \* the request answered last
    resp     \* its response

vars == <<heap, seq, gen, rng, clock, req, resp>>

\* a mutant: every INSERT of the batch is committed on its own
Uncommitted_autocommit == {}

\* the ids written by the open transaction: no other connection sees them
Uncommitted == IF gen.pc = "loop" THEN gen.ids ELSE {}
Visible(h) == SelectSeq(h, LAMBDA r : r.id \notin Uncommitted)

\* the table constraints, checked by the store when the INSERT executes
insert_accepts(v) ==
    /\ FitsString(v.submission_id, SubmissionIdLen)
    /\ FitsBigInteger(v.seed)
    /\ FitsString(v.timestamp_start, TimestampLen)
    /\ FitsString(v.timestamp_end, TimestampLen)
    /\ FitsInteger(v.duration_seconds)

\* the stored row: the values and the id the sequence hands out
stored_row(v, id) ==
    [id |-> id,
     submission_id |-> v.submission_id.s,
     seed |-> v.seed,
     timestamp_start |-> v.timestamp_start.s,
     timestamp_end |-> v.timestamp_end.s,
     duration_seconds |-> v.duration_seconds,
     answers_json |-> v.answers_json,
     created_at |-> v.created_at]

\* a mutant: the INSERT replaces a stored row that has the same submission_id
upsert_row(h, row) ==
    IF \E i \in 1..Len(h) : h[i].submission_id = row.submission_id
    THEN [i \in 1..Len(h) |-> IF h[i].submission_id = row.submission_id THEN row ELSE h[i]]
    ELSE Append(h, row)

\* INSERT appends; nothing is looked up or replaced
insert_row(h, row) == Append(h, row)

\* DELETE FROM submissions: every row the connection can see
delete_all(h) == SelectSeq(h, LAMBDA r : r.id \in Uncommitted)

\* a mutant: the clear restarts the sequence (TRUNCATE ... RESTART IDENTITY)
seq_restarted(s) == 1

\* the sequence is never reset: DELETE leaves it alone
seq_after_delete(s) == s

RECURSIVE order_by_id(_)
order_by_id(rows) ==
    IF rows = <<>> THEN <<>>
    ELSE LET m == CHOOSE i \in 1..Len(rows) : \A j \in 1..Len(rows) : rows[i].id <= rows[j].id
         IN <<rows[m]>> \o order_by_id(SubSeq(rows, 1, m - 1) \o SubSeq(rows, m + 1, Len(rows)))

\* a mutant: order_by(submissions.c.id.desc())
select_all_desc(h) ==
    LET rows == order_by_id(Visible(h)) IN [i \in 1..Len(rows) |-> rows[Len(rows) + 1 - i]]

\* select(submissions).order_by(submissions.c.id.asc())
select_all(h) == order_by_id(Visible(h))

(***************************************************************************)
(* Responses                                                               *)
(***************************************************************************)
Response(status, body) == [status |-> status, body |-> body]
\* jsonify({"error": msg}), 400
BadRequest(msg) == Response(400, [error |-> msg])
\* abort(403)
Forbidden == Response(403, [error |-> "Forbidden"])
\* an exception nothing catches: Flask answers 500
ServerError(exc) == Response(500, [exception |-> exc])

(***************************************************************************)
(* POST /api/submit (app.py lines 68-95)                                   *)
(***************************************************************************)
\* the six fields of a submission, as the interface names them
FieldNames ==
    <<"submissionId", "seed", "timestampStart", "timestampEnd", "durationSeconds", "answers">>
SixFields == {FieldNames[i] : i \in 1..Len(FieldNames)}

\* a mutant: the list of required fields forgets `seed`
required_fields_no_seed ==
    <<"submissionId", "timestampStart", "timestampEnd", "durationSeconds", "answers">>

required_fields ==
    <<"submissionId", "seed", "timestampStart", "timestampEnd", "durationSeconds", "answers">>

RECURSIVE Concat(_, _, _)
\* names[i] + ... + names[j]
Concat(names, i, j) == IF i > j THEN "" ELSE names[i] \o Concat(names, i + 1, j)

\* `field in data`: a key of a dict, an element of a list, a substring of a
\* string (looked for at the boundaries of the strings the model sends), and a
\* TypeError on a number
contains(data, field) ==
    IF data.t = "dict" THEN Ok(HasKey(data, field))
    ELSE IF data.t = "list" THEN Ok(\E i \in 1..Len(data.items) : data.items[i] = PyStr(field))
    ELSE IF data.t = "str"
         THEN Ok(\E i \in 1..(Len(FieldNames) + 1), j \in 0..Len(FieldNames) :
                    Concat(FieldNames, 1, i - 1) \o field
                        \o Concat(FieldNames, j + 1, Len(FieldNames)) = data.s)
    ELSE Raise("TypeError")

\* all(field in data for field in required_fields)
has_required_fields(data) ==
    IF \E i \in 1..Len(required_fields) : ~contains(data, required_fields[i]).ok
    THEN Raise("TypeError")
    ELSE Ok(\A i \in 1..Len(required_fields) : contains(data, required_fields[i]).val)

\* int(data[k])
int_of(data, k) == LET x == subscript(data, k) IN IF x.ok THEN int(x.val) ELSE x
\* str(data[k])
str_of(data, k) == LET x == subscript(data, k) IN IF x.ok THEN Ok(PyStr(str(x.val))) ELSE x

\* submissions.insert().values(...): the keyword arguments, evaluated in order;
\* the first exception ends the evaluation
submit_values(data) ==
    LET submission_id == subscript(data, "submissionId")
        seed == int_of(data, "seed")
        timestamp_start == str_of(data, "timestampStart")
        timestamp_end == str_of(data, "timestampEnd")
        duration_seconds == int_of(data, "durationSeconds")
        answers == subscript(data, "answers")
    IN  IF ~submission_id.ok THEN submission_id
        ELSE IF ~seed.ok THEN seed
        ELSE IF ~timestamp_start.ok THEN timestamp_start
        ELSE IF ~timestamp_end.ok THEN timestamp_end
        ELSE IF ~duration_seconds.ok THEN duration_seconds
        ELSE IF ~answers.ok THEN answers
        ELSE Ok([submission_id |-> submission_id.val,
                 seed |-> seed.val,
                 timestamp_start |-> timestamp_start.val,
                 timestamp_end |-> timestamp_end.val,
                 duration_seconds |-> duration_seconds.val,
                 answers_json |-> dumps(answers.val),
                 created_at |-> clock])

\* the handler up to the INSERT: either a response, or the values to insert
submit_validate(data) ==
    IF Falsy(data) THEN [done |-> TRUE, resp |-> BadRequest("Invalid JSON")]
    ELSE LET has == has_required_fields(data) IN
         IF ~has.ok THEN [done |-> TRUE, resp |-> ServerError(has.exc)]
         ELSE IF ~has.val THEN [done |-> TRUE, resp |-> BadRequest("Missing required fields")]
         \* data.get("answers") on a list or a string
         ELSE IF data.t # "dict" THEN [done |-> TRUE, resp |-> ServerError("AttributeError")]
         \* isinstance(data.get("answers"), list)
         ELSE IF DictGet(data, "answers", None).t # "list"
              THEN [done |-> TRUE, resp |-> BadRequest("answers must be a list")]
         ELSE LET v == submit_values(data) IN
              IF ~v.ok THEN [done |-> TRUE, resp |-> ServerError(v.exc)]
              ELSE [done |-> FALSE, values |-> v.val]

\* --- the request bodies the model sends ---
Answer(n, a1, a2, code) ==
    PyDict(<< <<"comparison", Small(n)>>, <<"audio1", PyStr(a1)>>,
              <<"audio2", PyStr(a2)>>, <<"answer", Small(code)>> >>)

\* the scenario of the specification: seed 4294967295
Base ==
    PyDict(<< <<"submissionId", PyStr("s1")>>,
              <<"seed", PyInt(Limb - 1, Limb - 1)>>,
              <<"timestampStart", PyStr("2024-01-01T00:00:00Z")>>,
              <<"timestampEnd", PyStr("2024-01-01T00:10:00Z")>>,
              <<"durationSeconds", Small(600)>>,
              <<"answers", PyList(<<Answer(1, "a.wav", "b.wav", 1)>>)>> >>)

With(d, k, v) == PyDict([i \in 1..Len(d.pairs) |->
                            IF d.pairs[i][1] = k THEN <<k, v>> ELSE d.pairs[i]])
Without(d, k) == PyDict(SelectSeq(d.pairs, LAMBDA p : p[1] # k))

Chars16 == "0123456789abcdef"
Chars64 == Chars16 \o Chars16 \o Chars16 \o Chars16
Chars255 == Chars64 \o Chars64 \o Chars64 \o Chars16 \o Chars16 \o Chars16 \o "0123456789abcde"

\* a payload at the limits of the columns, with answers of mixed shapes
AtLimits ==
    With(With(With(Base, "submissionId", PyStr(Chars255)),
              "durationSeconds", PyInt(Int32Limb - 1, Limb - 1)),
         "answers", PyList(<<Answer(2, "b.wav", "a.wav", 0), Small(7), Answer(1, "a.wav", "b.wav", 2)>>))
\* the least seed, no answers
Least == With(With(Base, "seed", Small(0)), "answers", PyList(<<>>))

\* payloads that are objects with all six fields
FullBodies ==
    {Base, AtLimits, Least}
    \cup {With(Base, "seed", v) : v \in {PyStr("7"), PyStr("abc"), None}}
    \cup {With(Base, "durationSeconds", v) : v \in {PyInt(Int32Limb, 0), PyStr("abc")}}
    \cup {With(Base, "answers", v) : v \in {PyStr("x"), None}}
    \cup {With(Base, "submissionId", PyStr(Chars255 \o "f"))}
    \cup {With(Base, "timestampStart", v) : v \in {PyStr(Chars64 \o "0"), Small(5)}}

\* objects that lack a required field, whatever else they hold
LackingBodies ==
    {Without(b, f) :
        b \in {Base, With(With(Base, "seed", PyStr("abc")), "answers", None)}, f \in SixFields}
    \cup {PyDict(<<>>), PyDict(<< <<"code", PyStr(ADMIN_CODE)>> >>)}

\* payloads that are no object: no JSON at all, a list, a string, a number
NonObjectBodies ==
    {None, PyList(<<>>), PyList(<<Small(1)>>),
     PyList([i \in 1..Len(FieldNames) |-> PyStr(FieldNames[i])]),
     PyStr("abc"), PyStr(Concat(FieldNames, 1, Len(FieldNames))),
     Small(5), Small(0)}

SubmitBodies == FullBodies \cup LackingBodies \cup NonObjectBodies

(***************************************************************************)
(* Bounds of the model                                                     *)
(***************************************************************************)
\* the last id a submit takes, or a batch starts at (the sequence has no end)
MaxSeq == 2
\* the last second of the clock
MaxClock == 1
\* the number of states of the random generator
RngPeriod == 3

(***************************************************************************)
(* The admin code (app.py lines 98-109)                                    *)
(***************************************************************************)
\* `not code or code != ADMIN_CODE`
denied(code) == Falsy(code) \/ ~(code.t = "str" /\ code.s = ADMIN_CODE)

\* request.args.get("code"): a string, or None when the query has no code
require_admin_code_from_query(code) == IF denied(code) THEN Raise("403") ELSE Ok(code)

\* request.get_json(silent=True) or {}; data.get("code")
require_admin_code_from_json(body) ==
    LET data == IF Falsy(body) THEN PyDict(<<>>) ELSE body IN
    IF data.t # "dict" THEN Raise("AttributeError")
    ELSE IF denied(DictGet(data, "code", None)) THEN Raise("403")
    ELSE Ok(data)

\* what the caller gets when the check raises
Refusal(exc) == IF exc = "403" THEN Forbidden ELSE ServerError(exc)

QueryCodes == {None, PyStr(""), PyStr("admin124"), PyStr(ADMIN_CODE)}

Code(v) == PyDict(<< <<"code", v>> >>)
DeniedBodies ==
    {None, PyDict(<<>>), Code(None), Code(PyStr("")), Code(PyStr("admin124")), Code(Small(123)),
     PyDict(<< <<"code", PyStr("nope")>>, <<"count", Small(2)>> >>),
     PyDict(<< <<"count", Small(1)>> >>),
     PyList(<<>>), PyList(<<PyStr(ADMIN_CODE)>>), PyStr(ADMIN_CODE), Small(5)}
ClearBodies == DeniedBodies \cup {Code(PyStr(ADMIN_CODE))}

(***************************************************************************)
(* GET /api/admin-data (app.py lines 112-143)                              *)
(***************************************************************************)
\* datetime.isoformat(), on the model's clock
isoformat(t) == "T" \o ToString(t)

\* a mutant: a text that does not deserialize gives null answers
row_answers_null(text) ==
    IF text = <<>> THEN PyList(<<>>)
    ELSE LET a == loads(text) IN IF a.ok THEN a.val ELSE None

\* json.loads(r["answers_json"]) if r["answers_json"] else [], except: []
row_answers(text) ==
    IF text = <<>> THEN PyList(<<>>)
    ELSE LET a == loads(text) IN IF a.ok THEN a.val ELSE PyList(<<>>)

admin_row(r) ==
    [id |-> r.id,
     submissionId |-> r.submission_id,
     seed |-> r.seed,
     timestampStart |-> r.timestamp_start,
     timestampEnd |-> r.timestamp_end,
     durationSeconds |-> r.duration_seconds,
     createdAt |-> isoformat(r.created_at),
     answers |-> row_answers(r.answers_json)]

\* the result list of api_admin_data
admin_data(h) == LET rows == select_all(h) IN [i \in 1..Len(rows) |-> admin_row(rows[i])]

(***************************************************************************)
(* POST /api/admin-generate-test (app.py lines 156-234)                    *)
(***************************************************************************)
Pair(id, a1, a2) == [pairId |-> id, audio1 |-> "audio/" \o a1 \o ".wav", audio2 |-> "audio/" \o a2 \o ".wav"]
real_pairs ==
    << Pair("bohemian_orig_vs_32", "Bohemian_Original", "Bohemian_32"),
       Pair("bohemian_orig_vs_64", "Bohemian_Original", "Bohemian_64"),
       Pair("bohemian_128_vs_orig", "Bohemian_128", "Bohemian_Original"),
       Pair("bohemian_224_vs_orig", "Bohemian_224", "Bohemian_Original"),
       Pair("bohemian_320_vs_orig", "Bohemian_320", "Bohemian_Original"),
       Pair("bohemian_orig_vs_orig", "Bohemian_Original", "Bohemian_Original"),
       Pair("conan_32_vs_orig", "Conan_32", "Conan_Original"),
       Pair("conan_orig_vs_64", "Conan_Original", "Conan_64"),
       Pair("conan_orig_vs_128", "Conan_Original", "Conan_128"),
       Pair("conan_224_vs_orig", "Conan_224", "Conan_Original"),
       Pair("conan_320_vs_orig", "Conan_320", "Conan_Original"),
       Pair("conan_orig_vs_orig", "Conan_Original", "Conan_Original"),
       Pair("tomsdiner_orig_vs_32", "TomsDiner_Original", "TomsDiner_32"),
       Pair("tomsdiner_64_vs_orig", "TomsDiner_64", "TomsDiner_Original"),
       Pair("tomsdiner_128_vs_orig", "TomsDiner_128", "TomsDiner_Original"),
       Pair("tomsdiner_orig_vs_224", "TomsDiner_Original", "TomsDiner_224"),
       Pair("tomsdiner_320_vs_orig", "TomsDiner_320", "TomsDiner_Original"),
       Pair("tomsdiner_orig_vs_orig", "TomsDiner_Original", "TomsDiner_Original") >>

ComparisonsWanted == 15
\* if total_comparisons > len(real_pairs): total_comparisons = len(real_pairs)
total_comparisons == IF ComparisonsWanted > Len(real_pairs) THEN Len(real_pairs) ELSE ComparisonsWanted

DefaultCount == 5
\* int(data.get("count", 5))
gen_total(data) == int(DictGet(data, "count", Small(DefaultCount)))

\* a + k for a small k >= 0
IntAdd(a, k) == PyInt(a.hi + (a.lo + k) \div Limb, (a.lo + k) % Limb)

\* random.randint(min_v, max_v) in generator state r: the generator's states
\* give the least value, the greatest, and the ones that follow the least
rand_int(min_v, max_v, r) ==
    LET k == r % RngPeriod IN
    IF k = 0 THEN min_v
    ELSE IF k = 1 THEN max_v
    ELSE IF IntLeq(IntAdd(min_v, k - 1), max_v) THEN IntAdd(min_v, k - 1) ELSE max_v

\* random.sample(population, k) in generator state r: k different members, in
\* an order that depends on the state
sample(population, k, r) ==
    [j \in 1..k |-> population[((r + (j - 1) * 5) % Len(population)) + 1]]

\* the generator is read once for the duration, once for the sample, once per
\* answer and once for the seed
draws_per_row == total_comparisons + 3

\* the answers of one synthetic submission
gen_answers(r) ==
    LET sampled_pairs == sample(real_pairs, total_comparisons, r + 1) IN
    PyList([idx \in 1..Len(sampled_pairs) |->
        PyDict(<< <<"comparison", Small(idx)>>,
                  <<"pairId", PyStr(sampled_pairs[idx].pairId)>>,
                  <<"audio1", PyStr(sampled_pairs[idx].audio1)>>,
                  <<"audio2", PyStr(sampled_pairs[idx].audio2)>>,
                  <<"answer", rand_int(Small(0), Small(2), r + 1 + idx)>> >>)])

\* the values of the i-th INSERT of the loop (i from 0), started at `now`
gen_values(i, now, r) ==
    LET duration_seconds == rand_int(Small(60), Small(600), r)
        end == now + IntVal(duration_seconds)
    IN  [submission_id |-> PyStr("test-" \o ToString(i + 1) \o "-" \o ToString(now)),
         seed |-> rand_int(Small(1), PyInt(Limb - 1, Limb - 1), r + total_comparisons + 2),
         timestamp_start |-> PyStr(isoformat(now) \o "Z"),
         timestamp_end |-> PyStr(isoformat(end) \o "Z"),
         duration_seconds |-> duration_seconds,
         answers_json |-> dumps(gen_answers(r)),
         created_at |-> clock]

\* a mutant: the loop stops one turn early
loop_stops_early(i, total) == i + 1 < total

\* for i in range(total)
loop_continues(i, total) == i < total

Counted(v) == PyDict(<< <<"code", PyStr(ADMIN_CODE)>>, <<"count", v>> >>)
\* authorized bodies: no count, and counts of several shapes
CountBodies ==
    {Code(PyStr(ADMIN_CODE))}
    \cup {Counted(v) : v \in {Small(0), Small(2), PyInt(-1, Limb - 1), PyStr("2"), PyStr("many"), None}}

(***************************************************************************)
(* The state machine                                                       *)
(***************************************************************************)
LegacyRow(text) ==
    [id |-> 1, submission_id |-> "old", seed |-> Small(42),
     timestamp_start |-> "2023-12-31T23:00:00Z", timestamp_end |-> "2023-12-31T23:05:00Z",
     duration_seconds |-> Small(300), answers_json |-> text, created_at |-> 0]

\* the table as the process finds it: empty, or holding a row whose answers
\* text was cut short or is empty
InitialTables == {<<>>, <<LegacyRow(<<P("["), TStr("a.wav")>>)>>, <<LegacyRow(<<>>)>>}

NoGen == [pc |-> "idle", data |-> None, total |-> 0, i |-> 0, now |-> 0, ids |-> {}]

\* the process starts with the table it finds and a generator in any state
InitWith(tables, rngs) ==
    /\ heap \in tables
    /\ seq = Len(heap) + 1
    /\ gen = NoGen
    /\ rng \in rngs
    /\ clock = 0
    /\ req = [op |-> "none"]
    /\ resp = Response(0, [status |-> "none"])

\* time passes
Tick ==
    /\ clock < MaxClock
    /\ clock' = clock + 1
    /\ UNCHANGED <<heap, seq, gen, rng, req, resp>>

Submit(bodies) ==
    \E data \in bodies :
        LET v == submit_validate(data) IN
        /\ req' = [op |-> "submit", data |-> data]
        /\ IF v.done
           THEN resp' = v.resp /\ UNCHANGED <<heap, seq>>
           ELSE IF insert_accepts(v.values)
                THEN /\ seq <= MaxSeq
                     /\ heap' = insert_row(heap, stored_row(v.values, seq))
                     /\ seq' = seq + 1
                     /\ resp' = Response(200, [status |-> "ok"])
                \* the store refuses the values: DataError, and the block rolls back
                ELSE /\ UNCHANGED <<heap, seq>>
                     /\ resp' = ServerError("DataError")
        /\ UNCHANGED <<gen, rng, clock>>

AdminData(codes) ==
    \E code \in codes :
        LET auth == require_admin_code_from_query(code) IN
        /\ req' = [op |-> "admin-data", data |-> code]
        /\ resp' = IF auth.ok THEN Response(200, [rows |-> admin_data(heap)]) ELSE Refusal(auth.exc)
        /\ UNCHANGED <<heap, seq, gen, rng, clock>>

AdminClear(bodies) ==
    \E body \in bodies :
        LET auth == require_admin_code_from_json(body) IN
        /\ req' = [op |-> "admin-clear", data |-> body]
        /\ IF auth.ok
           THEN heap' = delete_all(heap) /\ seq' = seq_after_delete(seq)
                /\ resp' = Response(200, [status |-> "cleared"])
           ELSE UNCHANGED <<heap, seq>> /\ resp' = Refusal(auth.exc)
        /\ UNCHANGED <<gen, rng, clock>>

\* the handler up to `with engine.begin()`: a refusal, a failed int(), or an
\* open transaction (the model runs one batch at a time, beside the other
\* handlers)
GenerateStart(bodies) ==
    \E body \in bodies :
        LET auth == require_admin_code_from_json(body)
            total == IF auth.ok THEN gen_total(auth.val) ELSE auth
        IN  IF ~total.ok
            THEN /\ req' = [op |-> "admin-generate-test", data |-> body]
                 /\ resp' = Refusal(total.exc)
                 /\ UNCHANGED <<heap, seq, gen, rng, clock>>
            ELSE /\ gen.pc # "loop"
                 /\ seq <= MaxSeq
                 /\ gen' = [pc |-> "loop", data |-> body, total |-> IntVal(total.val),
                            i |-> 0, now |-> clock, ids |-> {}]
                 /\ UNCHANGED <<heap, seq, rng, clock, req, resp>>

\* one turn of the loop: one INSERT inside the transaction
GenerateInsert ==
    /\ gen.pc = "loop"
    /\ loop_continues(gen.i, gen.total)
    /\ heap' = insert_row(heap, stored_row(gen_values(gen.i, gen.now, rng), seq))
    /\ seq' = seq + 1
    /\ rng' = (rng + draws_per_row) % RngPeriod
    /\ gen' = [gen EXCEPT !.i = @ + 1, !.ids = @ \cup {seq}]
    /\ UNCHANGED <<clock, req, resp>>

\* the end of the `with` block: COMMIT, then the response
GenerateCommit ==
    /\ gen.pc = "loop"
    /\ ~loop_continues(gen.i, gen.total)
    /\ gen' = [gen EXCEPT !.pc = "committed"]
    /\ req' = [op |-> "admin-generate-test", data |-> gen.data]
    /\ resp' = Response(200, [status |-> "generated", count |-> gen.total])
    /\ UNCHANGED <<heap, seq, rng, clock>>

\* a statement of the batch fails (the connection is lost, the store refuses):
\* the `with` block rolls the transaction back and the exception is not caught
GenerateFail ==
    /\ gen.pc = "loop"
    /\ heap' = SelectSeq(heap, LAMBDA r : r.id \notin gen.ids)
    /\ gen' = [gen EXCEPT !.pc = "rolledback"]
    /\ req' = [op |-> "admin-generate-test", data |-> gen.data]
    /\ resp' = ServerError("OperationalError")
    /\ UNCHANGED <<seq, rng, clock>>

\* --- the life of the table: every operation, on a few requests each ---
FewSubmits == {Base, Without(Base, "seed")}
FewCodes == {PyStr(ADMIN_CODE), PyStr("admin124")}
FewClears == {Code(PyStr(ADMIN_CODE)), Code(PyStr("admin124"))}
FewGens == {Counted(Small(2)), Code(PyStr("admin124"))}

Init == InitWith(InitialTables, {0})
Next ==
    \/ Tick
    \/ Submit(FewSubmits)
    \/ AdminData(FewCodes)
    \/ AdminClear(FewClears)
    \/ GenerateStart(FewGens)
    \/ GenerateInsert
    \/ GenerateCommit
    \/ GenerateFail
Spec == Init /\ [][Next]_vars

\* --- submit on every payload of the model ---
InitSubmit == InitWith({<<>>}, {0})
NextSubmit ==
    \/ Submit(SubmitBodies)
    \/ AdminData({PyStr(ADMIN_CODE)})
    \/ AdminClear({Code(PyStr(ADMIN_CODE))})
SpecSubmit == InitSubmit /\ [][NextSubmit]_vars

\* --- the admin operations on every body and query of the model ---
InitAuth == InitWith(InitialTables, {0})
NextAuth ==
    \/ Submit({Base})
    \/ AdminData(QueryCodes)
    \/ AdminClear(ClearBodies)
    \/ GenerateStart(DeniedBodies \cup {Counted(Small(1))})
    \/ GenerateInsert
    \/ GenerateCommit
    \/ GenerateFail
SpecAuth == InitAuth /\ [][NextAuth]_vars

\* --- generate-test beside readers, a writer and a clear ---
InitGen == InitWith({<<>>}, 0..(RngPeriod - 1))
NextGen ==
    \/ Submit({Base})
    \/ AdminData({PyStr(ADMIN_CODE)})
    \/ AdminClear({Code(PyStr(ADMIN_CODE))})
    \/ GenerateStart(CountBodies)
    \/ GenerateInsert
    \/ GenerateCommit
    \/ GenerateFail
SpecGen == InitGen /\ [][NextGen]_vars

(***************************************************************************)
(* The claims                                                              *)
(***************************************************************************)
Ids(h) == {h[i].id : i \in 1..Len(h)}

\* a step of one of the handlers that answer in one piece (or no step at all)
AtomicStep == gen' = gen /\ clock' = clock /\ rng' = rng
SubmitStep == AtomicStep /\ req'.op = "submit"

LacksField(data) == data.t = "dict" /\ \E f \in SixFields : ~HasKey(data, f)
HasAllFields(data) == data.t = "dict" /\ \A f \in SixFields : HasKey(data, f)

\* C3: a submit whose payload is an object lacking one of the six required
\* fields is answered 400 and leaves the number of stored rows unchanged.
C3_MissingFieldRejected ==
    [][(SubmitStep /\ LacksField(req'.data))
        => (resp'.status = 400 /\ Len(heap') = Len(heap) /\ heap' = heap)]_vars

\* C3 witness: a payload that lacks only `seed` (and whose other fields are
\* malformed or not) was answered 400 while the table held a row.
C3_Witness ==
    /\ req.op = "submit" /\ resp.status = 400
    /\ req.data.t = "dict" /\ ~HasKey(req.data, "seed") /\ HasKey(req.data, "answers")
    /\ Len(req.data.pairs) = Cardinality(SixFields) - 1
    /\ Len(heap) > 0

\* what the claim calls a client input error other than a missing field
IsInputError(data) ==
    \/ data.t \in {"list", "str", "int"}
    \/ /\ HasAllFields(data)
       /\ \/ Item(data, "answers").t # "list"
          \/ ~int(Item(data, "seed")).ok
          \/ ~int(Item(data, "durationSeconds")).ok

\* C4 (as claimed): every client input error on submit other than a missing
\* field (a payload that is no object, answers that is no list, a seed or a
\* durationSeconds that int() refuses) is answered 4xx and stores no row.
C4_InputErrorsAre4xx ==
    [][(SubmitStep /\ IsInputError(req'.data))
        => (resp'.status \in 400..499 /\ heap' = heap)]_vars

\* the payloads the round trip is claimed for
IsValidPayload(data) ==
    /\ HasAllFields(data)
    /\ Item(data, "submissionId").t = "str"
    /\ Item(data, "timestampStart").t = "str"
    /\ Item(data, "timestampEnd").t = "str"
    /\ Item(data, "durationSeconds").t = "int"
    /\ Item(data, "seed").t = "int"
    /\ IntLeq(Small(0), Item(data, "seed"))
    /\ IntLeq(Item(data, "seed"), PyInt(Limb - 1, Limb - 1))
    /\ Item(data, "answers").t = "list"

RoundTrips(data, listing) ==
    \E i \in 1..Len(listing) :
        /\ listing[i].submissionId = Item(data, "submissionId").s
        /\ listing[i].seed = Item(data, "seed")
        /\ listing[i].timestampStart = Item(data, "timestampStart").s
        /\ listing[i].timestampEnd = Item(data, "timestampEnd").s
        /\ listing[i].durationSeconds = Item(data, "durationSeconds")
        /\ listing[i].answers = Item(data, "answers")

\* C5 (as claimed): after the submit of a valid payload (string submissionId
\* and timestamps, integer durationSeconds, integer seed in [0, 2^32-1], a
\* list of answers) the admin listing holds a row with exactly those values.
C5_RoundTrip ==
    [][(SubmitStep /\ IsValidPayload(req'.data)) => RoundTrips(req'.data, admin_data(heap'))]_vars

(***************************************************************************)
(* Claims on the admin operations                                          *)
(***************************************************************************)
AdminOps == {"admin-data", "admin-clear", "admin-generate-test"}

\* the caller sent no code, or one that is not the configured admin code
CodeMissingOrWrong(r) ==
    IF r.op = "admin-data" THEN r.data # PyStr(ADMIN_CODE)
    ELSE ~(r.data.t = "dict" /\ HasKey(r.data, "code") /\ Item(r.data, "code") = PyStr(ADMIN_CODE))

\* C2 (as claimed): each admin operation called with a missing or wrong code
\* answers 403 and leaves the stored submissions as they were, whatever the
\* body or query.
C2_DeniedIs403 ==
    [][(AtomicStep /\ req'.op \in AdminOps /\ CodeMissingOrWrong(req'))
        => (resp'.status = 403 /\ heap' = heap /\ seq' = seq)]_vars

\* C1: a listing never shows a strict non-empty part of a generate-test
\* batch (none of its rows while it runs, all `count` of them once it has
\* committed), and a batch that failed leaves none of its rows in the table.
C1_BatchIsAtomic ==
    /\ (req.op = "admin-data" /\ resp.status = 200) =>
          LET seen == {resp.body.rows[i].id : i \in 1..Len(resp.body.rows)} \cap gen.ids IN
          \/ seen = {}
          \/ seen = gen.ids /\ gen.pc = "committed" /\ Cardinality(seen) = gen.total
    /\ gen.pc = "rolledback" => Ids(heap) \cap gen.ids = {}

\* C1 witness: a reader listed the table in the middle of a batch (some of
\* its rows inserted, some not yet) and was shown rows, none of the batch.
C1_Witness ==
    /\ req.op = "admin-data" /\ resp.status = 200
    /\ gen.pc = "loop" /\ gen.i > 0 /\ gen.i < gen.total
    /\ Len(resp.body.rows) > 0

\* the count the caller asked for: 5 when the body has none
AskedCount(body) == IF HasKey(body, "count") THEN Item(body, "count") ELSE Small(5)
CommitStep == gen.pc = "loop" /\ gen'.pc = "committed"
NewRows == SelectSeq(heap', LAMBDA r : r.id \in gen'.ids)

\* a synthetic row: 15 answers with codes in {0,1,2}, seed in [1, 2^32-1],
\* durationSeconds in [60, 600]
IsSynthetic(r) ==
    LET a == admin_row(r).answers IN
    /\ a.t = "list" /\ Len(a.items) = 15
    /\ \A j \in 1..Len(a.items) :
          /\ a.items[j].t = "dict" /\ HasKey(a.items[j], "answer")
          /\ Item(a.items[j], "answer") \in {Small(0), Small(1), Small(2)}
    /\ IntLeq(Small(1), r.seed) /\ IntLeq(r.seed, PyInt(Limb - 1, Limb - 1))
    /\ IntLeq(Small(60), r.duration_seconds) /\ IntLeq(r.duration_seconds, Small(600))

GrowsBy(n) ==
    /\ Len(Visible(heap)') = Len(Visible(heap)) + n
    /\ Len(NewRows) = n
    /\ \A i \in 1..Len(NewRows) : IsSynthetic(NewRows[i])

\* C8 (as claimed): an authorized generateTest with an integer count = N
\* (5 when absent) adds exactly N stored rows, reports count = N, and every
\* new row is a synthetic row.
C8_Original ==
    [][(CommitStep /\ AskedCount(gen.data).t = "int")
        => LET n == IntVal(AskedCount(gen.data)) IN
           resp'.body.count = n /\ GrowsBy(n)]_vars

\* C8 (amended): the same for N >= 0; a negative count is reported as it was
\* sent and adds no row.
C8_BatchGeneration ==
    [][(CommitStep /\ AskedCount(gen.data).t = "int")
        => LET n == IntVal(AskedCount(gen.data)) IN
           /\ resp'.status = 200 /\ resp'.body.count = n
           /\ GrowsBy(IF n >= 0 THEN n ELSE 0)]_vars

\* C8 witness: a batch without a count has committed its 5 rows and the
\* response reports 5.
C8_Witness ==
    /\ gen.pc = "committed" /\ ~HasKey(gen.data, "count")
    /\ req.op = "admin-generate-test" /\ resp.status = 200 /\ resp.body.count = 5
    /\ Cardinality(gen.ids) = 5 /\ gen.ids \subseteq Ids(heap)

(***************************************************************************)
(* Claims on the life of the table                                         *)
(***************************************************************************)
IsListing == req.op = "admin-data" /\ resp.status = 200

\* C6: the listing holds the stored rows with strictly increasing ids, in
\* the order in which they were inserted; the same holds of every listing
\* an admin was handed.
C6_ListingOrder ==
    LET out == admin_data(heap)
        inserted == Visible(heap)
    IN  /\ Len(out) = Len(inserted)
        /\ \A i \in 1..Len(out) : out[i].id = inserted[i].id
        /\ \A i, j \in 1..Len(out) : i < j => out[i].id < out[j].id
        /\ IsListing => resp.body.rows = out

\* C6 witness: an admin was handed a listing of three rows, a submitted row
\* between the two rows of a batch that was open when the submit was stored.
C6_Witness ==
    /\ IsListing /\ Len(resp.body.rows) = 3
    /\ resp.body.rows[2].submissionId = "s1"
    /\ {resp.body.rows[1].id, resp.body.rows[3].id} = gen.ids

ClearStep == AtomicStep /\ req'.op = "admin-clear" /\ resp'.status = 200

\* C7: right after an authorized clear the listing is empty, and ids are
\* never handed out again: every stored id is below the sequence, the
\* sequence never goes back, and a row that is new takes an id at or above it
\* (so a row inserted after a clear has an id above those of all rows before).
C7_ClearIsTotal ==
    [][/\ ClearStep => admin_data(heap)' = <<>>
       /\ \A i \in 1..Len(heap) : heap[i].id < seq
       /\ seq' >= seq
       /\ \A j \in 1..Len(heap') : heap'[j].id \notin Ids(heap) => heap'[j].id >= seq]_vars

\* C7 witness: no batch has run, the row with id 1 is gone (cleared) and a
\* submit has since stored a row, whose id is above 1.
C7_Witness ==
    /\ gen.pc = "idle"
    /\ req.op = "submit" /\ resp.status = 200
    /\ Len(heap) = 1 /\ heap[1].id > 1 /\ heap[1].id = seq - 1

\* C9: a stored row never changes while it exists; a stored row goes away
\* only in a successful clear, which leaves no stored row; and a successful
\* submit always adds one row with an id no row has.
C9_RowsImmutable ==
    [][/\ \A i \in 1..Len(heap), j \in 1..Len(heap') : heap[i].id = heap'[j].id => heap[i] = heap'[j]
       /\ (\E i \in 1..Len(Visible(heap)) : Visible(heap)[i].id \notin Ids(heap'))
             => (req'.op = "admin-clear" /\ resp'.status = 200 /\ Visible(heap)' = <<>>)
       /\ (SubmitStep /\ resp'.status = 200)
             => (Len(heap') = Len(heap) + 1 /\ heap'[Len(heap')].id \notin Ids(heap)
                 /\ SubSeq(heap', 1, Len(heap)) = heap)]_vars

\* C9 witness: the same payload was submitted twice and is stored twice,
\* under two ids.
C9_Witness ==
    \E i, j \in 1..Len(heap) :
        /\ heap[i].id # heap[j].id
        /\ heap[i].submission_id = "s1" /\ heap[j].submission_id = "s1"
        /\ heap[i].seed = heap[j].seed
        /\ heap[i].answers_json = heap[j].answers_json
        /\ heap[i].duration_seconds = heap[j].duration_seconds

\* C10: a listing holds every stored row in order; a row whose answers text
\* does not deserialize is in it with answers = [], and every other row with
\* its answers as stored; all other fields are the stored ones.
C10_DegradedRead ==
    IsListing =>
        LET out == resp.body.rows
            rows == Visible(heap)
        IN  /\ Len(out) = Len(rows)
            /\ \A i \in 1..Len(out) :
                  /\ out[i].id = rows[i].id
                  /\ out[i].submissionId = rows[i].submission_id
                  /\ out[i].seed = rows[i].seed
                  /\ out[i].timestampStart = rows[i].timestamp_start
                  /\ out[i].timestampEnd = rows[i].timestamp_end
                  /\ out[i].durationSeconds = rows[i].duration_seconds
                  /\ out[i].answers = IF loads(rows[i].answers_json).ok
                                      THEN loads(rows[i].answers_json).val
                                      ELSE PyList(<<>>)

\* C10 witness: a listing of a row whose answers text is cut short, shown
\* with no answers, followed by a row shown with its answers.
C10_Witness ==
    /\ IsListing /\ Len(resp.body.rows) >= 2
    /\ heap[1].answers_json # <<>> /\ ~loads(heap[1].answers_json).ok
    /\ resp.body.rows[1].id = heap[1].id /\ resp.body.rows[1].answers = PyList(<<>>)
    /\ Len(resp.body.rows[2].answers.items) > 0
====
